---- MODULE Spec2Model ----
(***************************************************************************)
(* Model of src/script.js: the per-card weather page.  Three cards         *)
(* (current, historical, marine) each own an inline search box; a submit   *)
(* starts the asynchronous fetchWeatherForCard, which geocodes the city,   *)
(* fetches the card's weather and renders it.  Every await of the source   *)
(* is a point where other handlers may run, so one invocation is split     *)
(* into the step that runs up to the geocoding request, the step that runs *)
(* when the geocoding response settles, and the step that runs when the    *)
(* weather response settles.                                               *)
(*                                                                         *)
(* Numbers with decimals are fixed-point integers: temperatures in tenths  *)
(* of a degree, wave heights in hundredths of a metre.  A JavaScript       *)
(* string that the code inspects character by character (the city input)   *)
(* is a sequence of one-character strings.                                 *)
(***************************************************************************)
EXTENDS Integers, Sequences, FiniteSets, TLC

VARIABLES
    dom,        \* the page: display, class and text of the elements bound at 9-41
    activeCard, \* let activeCard (44)
    calls,      \* the invocations of fetchWeatherForCard, in call order
    requests,   \* the HTTP requests issued so far: <<call, endpoint>>
    settled,    \* those whose response has come back
    lastWrite,  \* per card: the call that rendered into it last, and what it rendered
    lastEvent,  \* the handler that ran last, if it was a submit action
    code,       \* input of the condition-code translator
    label,      \* its result
    daily,      \* input of the historical renderer
    renders     \* number of times it was rendered

pureVars == <<code, label, daily, renders>>
pageVars == <<dom, activeCard, calls, requests, settled, lastWrite>>
vars == <<pageVars, lastEvent, pureVars>>

(***************************************************************************)
(* Bounds of the model.                                                    *)
(***************************************************************************)
\* invocations of fetchWeatherForCard in one run
MaxSearches == 2
\* weather codes tried on each side of the table's range 0..99
CodeMargin == 2
\* longest daily series handed to the historical renderer
MaxDays == 8
\* renders of one daily series
MaxRenders == 2

Cards == {"current", "historical", "marine"}

null == [tag |-> "null"]
undefined == [tag |-> "undefined"]

(***************************************************************************)
(* String.prototype.trim and the truthiness test of `if (cityName)`.       *)
(***************************************************************************)
WhiteSpace == {" ", "\t"}

RECURSIVE trimStart(_)
trimStart(s) ==
    IF s # <<>> /\ Head(s) \in WhiteSpace THEN trimStart(Tail(s)) ELSE s

RECURSIVE trimEnd(_)
trimEnd(s) ==
    IF s # <<>> /\ s[Len(s)] \in WhiteSpace
    THEN trimEnd(SubSeq(s, 1, Len(s) - 1))
    ELSE s

trimIdentity(s) == s

trim(s) == trimEnd(trimStart(s))

\* a string is truthy iff it is not empty
truthy(s) == s # <<>>

(***************************************************************************)
(* getWeatherCondition, script.js 353-386.                                 *)
(***************************************************************************)
weatherCodes ==
    (0 :> "Clear sky") @@ (1 :> "Mainly clear") @@ (2 :> "Partly cloudy") @@
    (3 :> "Overcast") @@ (45 :> "Foggy") @@ (48 :> "Depositing rime fog") @@
    (51 :> "Light drizzle") @@ (53 :> "Moderate drizzle") @@
    (55 :> "Dense drizzle") @@ (56 :> "Light freezing drizzle") @@
    (57 :> "Dense freezing drizzle") @@ (61 :> "Slight rain") @@
    (63 :> "Moderate rain") @@ (65 :> "Heavy rain") @@
    (66 :> "Light freezing rain") @@ (67 :> "Heavy freezing rain") @@
    (71 :> "Slight snow fall") @@ (73 :> "Moderate snow fall") @@
    (75 :> "Heavy snow fall") @@ (77 :> "Snow grains") @@
    (80 :> "Slight rain showers") @@ (81 :> "Moderate rain showers") @@
    (82 :> "Violent rain showers") @@ (85 :> "Slight snow showers") @@
    (86 :> "Heavy snow showers") @@ (95 :> "Thunderstorm") @@
    (96 :> "Thunderstorm with slight hail") @@
    (99 :> "Thunderstorm with heavy hail")

\* a lookup that tests the code itself for truthiness: 0 is falsy in JavaScript
getWeatherConditionFalsyZero(c) ==
    IF c # 0 /\ c \in DOMAIN weatherCodes THEN weatherCodes[c] ELSE "Unknown"

\* weatherCodes[code] || 'Unknown': a missing key reads undefined, which is
\* falsy; so is the empty string
getWeatherCondition(c) ==
    IF c \in DOMAIN weatherCodes /\ weatherCodes[c] # ""
    THEN weatherCodes[c]
    ELSE "Unknown"

(***************************************************************************)
(* Number formatting.                                                      *)
(***************************************************************************)
\* Math.round of a value given in tenths: nearest integer, ties towards +inf
MathRound(tenths) == (tenths + 5) \div 10

\* toFixed(1) of a non-negative value given in hundredths: tenths, the larger
\* on a tie
toFixed1(hundredths) == (hundredths + 5) \div 10

MonthShort == <<"Jan", "Feb", "Mar", "Apr", "May", "Jun",
                "Jul", "Aug", "Sep", "Oct", "Nov", "Dec">>

\* new Date(iso).toLocaleDateString('en-US', {month: 'short', day: 'numeric'})
\* of the ISO date <<year, month, day>>: the year is dropped, the month named
shortDate(iso) == [month |-> MonthShort[iso[2]], day |-> iso[3]]

\* the text of an element: the pieces a template literal concatenates, or a
\* number followed by its suffix
Txt(pieces) == [text |-> pieces]
Num(n, suffix) == [num |-> n, suffix |-> suffix]

(***************************************************************************)
(* The page.  index.html and the stylesheet are not part of src/: the      *)
(* state they give the elements before any handler has run is taken from   *)
(* the specification (every search box closed, no card active, no loading  *)
(* indicator, no error, the marine empty state showing).                   *)
(***************************************************************************)
placeholder == Txt(<<"--">>)

initialPage ==
    [searchDisplay       |-> [c \in Cards |-> "none"],
     cardActive          |-> [c \in Cards |-> FALSE],
     loadingIndicator    |-> "none",
     errorDisplay        |-> "none",
     errorText           |-> "",
     temperatureEl       |-> placeholder,
     weatherConditionEl  |-> placeholder,
     humidityEl          |-> placeholder,
     locationEl          |-> placeholder,
     historicalContentEl |-> <<>>,
     waveHeightEl        |-> placeholder,
     seaTemperatureEl    |-> placeholder,
     marineEmptyState    |-> "block"]

(***************************************************************************)
(* showLoading, hideLoading, showError, hideError, script.js 459-484.      *)
(***************************************************************************)
showLoading(d) == [d EXCEPT !.loadingIndicator = "block"]

hideLoading(d) == [d EXCEPT !.loadingIndicator = "none"]

showError(d, message) == [d EXCEPT !.errorText = message, !.errorDisplay = "block"]

hideError(d) == [d EXCEPT !.errorDisplay = "none"]

(***************************************************************************)
(* toggleCardSearch, script.js 131-159.                                    *)
(***************************************************************************)
\* opens the clicked card's box without closing the others first
toggleCardSearchNoReset(d, cardType) ==
    IF cardType \in Cards
    THEN [d EXCEPT !.searchDisplay[cardType] = "flex", !.cardActive[cardType] = TRUE]
    ELSE d

toggleCardSearch(d, cardType) ==
    LET hidden == [d EXCEPT !.searchDisplay = [c \in Cards |-> "none"],
                            !.cardActive = [c \in Cards |-> FALSE]]
    IN  IF cardType \in Cards
        THEN [hidden EXCEPT !.searchDisplay[cardType] = "flex",
                            !.cardActive[cardType] = TRUE]
        ELSE hidden

(***************************************************************************)
(* The HTTP responses.  status is "neterror" (fetch rejects), "notok"      *)
(* (response.ok is false) or "ok"; body is the parsed JSON.                *)
(***************************************************************************)
Throw(message) == [tag |-> "throw", message |-> message]
Return(value) == [tag |-> "return", value |-> value]

JNum(v) == [tag |-> "number", v |-> v]
JStr(s) == [tag |-> "string", s |-> s]

(***************************************************************************)
(* geocodeCity, script.js 232-259.                                         *)
(***************************************************************************)
geocodeCity(response) ==
    IF response.status # "ok"
    THEN \* fetch rejected, or !response.ok threw: both reach the catch
         Throw("Failed to find location. Please check your internet connection.")
    ELSE IF ~response.body.hasResults \/ Len(response.body.results) = 0
    THEN Return(null)
    ELSE LET result == response.body.results[1]
         IN  Return([tag |-> "object", latitude |-> result.latitude,
                     longitude |-> result.longitude, name |-> result.name,
                     country |-> result.country,
                     \* result.admin1 || ''
                     admin1 |-> IF result.admin1.tag = "string"
                                THEN result.admin1.s ELSE ""])

(***************************************************************************)
(* fetchCurrentWeather 267-282, fetchHistoricalWeather 290-313.            *)
(***************************************************************************)
fetchCurrentWeather(response) ==
    IF response.status # "ok"
    THEN Throw("Failed to fetch current weather data.")
    ELSE Return(response.body.current)

fetchHistoricalWeather(response) ==
    IF response.status # "ok"
    THEN Throw("Failed to fetch historical weather data.")
    ELSE Return(response.body.daily)

(***************************************************************************)
(* fetchMarineWeather, script.js 321-346.                                  *)
(***************************************************************************)
\* a fetcher without the length test: the last element of an empty series
\* reads undefined
fetchMarineWeatherNoLengthTest(response) ==
    IF response.status # "ok"
    THEN null
    ELSE LET hourly == response.body.hourly
         IN  IF hourly.tag = "object" /\ hourly.hasWaveHeight
             THEN IF ~hourly.hasSeaTemperature
                  THEN null
                  ELSE LET index == Len(hourly.wave_height)
                       IN  [tag |-> "object",
                            waveHeight |-> IF index >= 1 THEN hourly.wave_height[index]
                                           ELSE undefined,
                            seaTemperature |-> IF index >= 1
                                               THEN hourly.sea_surface_temperature[index]
                                               ELSE undefined]
             ELSE null

fetchMarineWeather(response) ==
    IF response.status = "neterror"
    THEN null    \* the catch at 342
    ELSE IF response.status = "notok"
    THEN null    \* 326
    ELSE LET hourly == response.body.hourly
         IN  IF hourly.tag = "object" /\ hourly.hasWaveHeight
                /\ Len(hourly.wave_height) > 0
             THEN IF ~hourly.hasSeaTemperature
                  THEN null   \* indexing undefined throws; the catch at 342
                  ELSE LET index == Len(hourly.wave_height)   \* 1-based
                       IN  [tag |-> "object",
                            waveHeight |-> hourly.wave_height[index],
                            seaTemperature |-> hourly.sea_surface_temperature[index]]
             ELSE null

(***************************************************************************)
(* displayCurrentWeather, script.js 393-402.                               *)
(***************************************************************************)
\* reading a property of undefined; the message text is the engine's
TypeErrorMessage == "Cannot read properties of undefined"

displayCurrentWeather(d, data, location) ==
    IF data.tag # "object"
    THEN Throw(TypeErrorMessage)    \* data.temperature_2m at 394, before any write
    ELSE Return(
        [d EXCEPT
            !.temperatureEl = Num(MathRound(data.temperature_2m), ""),
            !.weatherConditionEl = Txt(<<getWeatherCondition(data.weather_code)>>),
            !.humidityEl = Num(data.relative_humidity_2m, "%"),
            !.locationEl =
                IF location.admin1 # ""
                THEN Txt(<<location.name, ", ", location.admin1, ", ", location.country>>)
                ELSE Txt(<<location.name, ", ", location.country>>)])

(***************************************************************************)
(* displayHistoricalWeather, script.js 408-435.                            *)
(***************************************************************************)
emptyStateElement ==
    [className |-> "empty-state", text |-> "No historical data available"]

Min(a, b) == IF a < b THEN a ELSE b

\* the loop body 420-433: the child appended for day i
dayElement(data, i) ==
    [className |-> "historical-day",
     date      |-> shortDate(data.time[i]),
     temp      |-> Num(MathRound(data.temperature_2m_max[i]), "°"),
     condition |-> getWeatherCondition(data.weather_code[i])]

\* a renderer that does not clear the panel before appending
displayHistoricalWeatherAppends(d, data) ==
    IF data.tag # "object" \/ ~data.hasTime \/ Len(data.time) = 0
    THEN [d EXCEPT !.historicalContentEl = <<emptyStateElement>>]
    ELSE LET daysToShow == Min(7, Len(data.time))
         IN  [d EXCEPT !.historicalContentEl =
                  @ \o [i \in 1..daysToShow |-> dayElement(data, i)]]

displayHistoricalWeather(d, data) ==
    IF data.tag # "object" \/ ~data.hasTime \/ Len(data.time) = 0
    THEN [d EXCEPT !.historicalContentEl = <<emptyStateElement>>]
    ELSE LET cleared == <<>>    \* innerHTML = '' at 414
             daysToShow == Min(7, Len(data.time))
         IN  [d EXCEPT !.historicalContentEl =
                  cleared \o [i \in 1..daysToShow |-> dayElement(data, i)]]

(***************************************************************************)
(* displayMarineWeather, script.js 441-454.                                *)
(***************************************************************************)
displayMarineWeather(d, data) ==
    IF data.tag # "object"
    THEN Return(d)
    ELSE IF data.waveHeight.tag = "undefined"
    THEN Throw(TypeErrorMessage)    \* undefined.toFixed at 447, before any write
    ELSE Return(
        [d EXCEPT
            !.waveHeightEl =
                IF data.waveHeight.tag # "null"
                THEN Num(toFixed1(data.waveHeight.v), " m")
                ELSE Txt(<<"N/A">>),
            !.seaTemperatureEl =
                IF data.seaTemperature.tag = "number"
                THEN Num(MathRound(data.seaTemperature.v), "°C")
                ELSE IF data.seaTemperature.tag = "null"
                THEN Txt(<<"N/A">>)
                ELSE Txt(<<"NaN", "°C">>),    \* Math.round(undefined)
            !.marineEmptyState = "none"])

(***************************************************************************)
(* fetchWeatherForCard, script.js 166-209, cut at its awaits.  A call is   *)
(* [cardType, cityName, pc, coordinates, outcome]: pc is the await it is   *)
(* suspended at ("geocode", "weather") or "done"; outcome records how it   *)
(* ended.  Each step yields the page, the call, and what the call handed   *)
(* to the card's display function, if it did.                              *)
(***************************************************************************)
GenericFailure == "Failed to fetch weather data. Please try again."
CityNotFound == "City not found. Please check the spelling and try again."
MarineUnavailable ==
    "Marine weather data not available for this location. Please try a coastal city."

\* the catch block 203-205 followed by the finally block 206-208, without
\* the finally
catchThenFinallyNoFinally(d, message) ==
    showError(d, IF message # "" THEN message ELSE GenericFailure)

\* the catch block 203-205 followed by the finally block 206-208
catchThenFinally(d, message) ==
    hideLoading(showError(d, IF message # "" THEN message ELSE GenericFailure))

\* the box is left open
closeSearchSkipped(d, cardType) == d

\* 181-182, 187-188, 199-200
closeSearch(d, cardType) ==
    [d EXCEPT !.searchDisplay[cardType] = "none", !.cardActive[cardType] = FALSE]

\* 167-172: up to the geocoding request
fetchWeatherForCardStart(d) == showLoading(hideError(d))

\* a new invocation that aborts the earlier ones still in flight
invokeAbortingOthers(cs, cardType, cityName) ==
    Append([i \in DOMAIN cs |->
               IF cs[i].pc # "done"
               THEN [cs[i] EXCEPT !.pc = "done", !.outcome = "error"]
               ELSE cs[i]],
           [cardType |-> cardType, cityName |-> cityName, pc |-> "geocode",
            coordinates |-> null, outcome |-> "pending"])

\* 166: a new invocation; the ones in flight are left alone
invoke(cs, cardType, cityName) ==
    Append(cs, [cardType |-> cardType, cityName |-> cityName, pc |-> "geocode",
                coordinates |-> null, outcome |-> "pending"])

\* the locals of a call that has returned are gone: coordinates is reset
Failed(d, call, message) ==
    [dom  |-> catchThenFinally(d, message),
     call |-> [call EXCEPT !.pc = "done", !.outcome = "error", !.coordinates = null],
     result |-> null]

Finished(d, call, outcome, result) ==
    [dom  |-> hideLoading(d),
     call |-> [call EXCEPT !.pc = "done", !.outcome = outcome, !.coordinates = null],
     result |-> result]

\* the weather request is sent although the geocoder found nothing
fetchWeatherForCardGeocodedNoNullTest(d, call, response) ==
    LET r == geocodeCity(response)
    IN  IF r.tag = "throw"
        THEN Failed(d, call, r.message)
        ELSE [dom  |-> d,
              call |-> [call EXCEPT !.pc = "weather", !.coordinates = r.value],
              result |-> null]

\* 172-176: the geocoding response has settled
fetchWeatherForCardGeocoded(d, call, response) ==
    LET r == geocodeCity(response)
    IN  IF r.tag = "throw"
        THEN Failed(d, call, r.message)
        ELSE IF r.value.tag # "object"    \* !coordinates
        THEN Failed(d, call, CityNotFound)
        ELSE [dom  |-> d,
              call |-> [call EXCEPT !.pc = "weather", !.coordinates = r.value],
              result |-> null]

\* 179-182
currentBranch(d, call, response) ==
    LET r == fetchCurrentWeather(response)
    IN  IF r.tag = "throw"
        THEN Failed(d, call, r.message)
        ELSE LET shown == displayCurrentWeather(d, r.value, call.coordinates)
             IN  IF shown.tag = "throw"
                 THEN Failed(d, call, shown.message)
                 ELSE Finished(closeSearch(shown.value, "current"), call, "rendered",
                               [data |-> r.value, location |-> call.coordinates])

\* 185-188
historicalBranch(d, call, response) ==
    LET r == fetchHistoricalWeather(response)
    IN  IF r.tag = "throw"
        THEN Failed(d, call, r.message)
        ELSE Finished(closeSearch(displayHistoricalWeather(d, r.value), "historical"),
                      call, "rendered", [data |-> r.value])

\* 191-200
marineBranch(d, call, response) ==
    LET marineData == fetchMarineWeather(response)
    IN  IF marineData.tag = "object" /\ marineData.waveHeight.tag # "null"
        THEN LET shown == displayMarineWeather(d, marineData)
             IN  IF shown.tag = "throw"
                 THEN Failed(d, call, shown.message)
                 ELSE Finished(closeSearch([shown.value EXCEPT
                                                !.marineEmptyState = "none"], "marine"),
                               call, "rendered", [data |-> marineData])
        ELSE Finished(closeSearch([showError(d, MarineUnavailable) EXCEPT
                                       !.marineEmptyState = "block"], "marine"),
                      call, "absent", [data |-> marineData])

\* 178-201: the weather response has settled
fetchWeatherForCardFetched(d, call, response) ==
    IF call.cardType = "current" THEN currentBranch(d, call, response)
    ELSE IF call.cardType = "historical" THEN historicalBranch(d, call, response)
    ELSE IF call.cardType = "marine" THEN marineBranch(d, call, response)
    ELSE Finished(d, call, "none", null)

(***************************************************************************)
(* What the environment supplies: the text of a city input when a handler  *)
(* reads it, the key of a keypress, and the responses of the three         *)
(* endpoints.                                                              *)
(***************************************************************************)
InputValues ==
    {<<>>, <<" ", "\t">>, <<" ", "a", " ", "b", "\t">>}

Keys == {"Enter", "a"}

\* what the claim calls empty or whitespace-only, stated without trim
Blank(value) == \A i \in 1..Len(value) : value[i] \in WhiteSpace

Paris ==
    [latitude |-> 4885, longitude |-> 235, name |-> "Paris",
     country |-> "France", admin1 |-> undefined]
Denver ==
    [latitude |-> 3974, longitude |-> -10499, name |-> "Denver",
     country |-> "United States", admin1 |-> JStr("Colorado")]

GeoResponses ==
    {[status |-> "neterror", body |-> null],
     [status |-> "notok", body |-> null],
     [status |-> "ok", body |-> [hasResults |-> FALSE, results |-> <<>>]],
     [status |-> "ok", body |-> [hasResults |-> TRUE, results |-> <<>>]],
     [status |-> "ok", body |-> [hasResults |-> TRUE, results |-> <<Paris>>]],
     [status |-> "ok", body |-> [hasResults |-> TRUE, results |-> <<Denver>>]]}

CurrentResponses ==
    {[status |-> "neterror", body |-> null],
     [status |-> "notok", body |-> null],
     [status |-> "ok", body |-> [current |-> undefined]],
     [status |-> "ok", body |-> [current |->
         [tag |-> "object", temperature_2m |-> 184, relative_humidity_2m |-> 65,
          weather_code |-> 3]]]}

\* the daily block of `len` consecutive days from May `first`; `shift` varies
\* the temperatures and the codes
DailySeries(first, len, shift) ==
    [tag |-> "object", hasTime |-> TRUE,
     time               |-> [i \in 1..len |-> <<2024, 5, first + i - 1>>],
     temperature_2m_max |-> [i \in 1..len |-> 150 + 7 * i + 25 * shift],
     temperature_2m_min |-> [i \in 1..len |-> 40 + 3 * i - 45 * shift],
     weather_code       |-> [i \in 1..len |-> (i * (shift + 1)) % 4]]

DailyWithoutTime ==
    [tag |-> "object", hasTime |-> FALSE, time |-> <<>>, temperature_2m_max |-> <<>>,
     temperature_2m_min |-> <<>>, weather_code |-> <<>>]

HistoricalResponses ==
    {[status |-> "neterror", body |-> null],
     [status |-> "notok", body |-> null]}
    \cup {[status |-> "ok", body |-> [daily |-> dl]] :
            dl \in {undefined, DailySeries(1, 0, 0), DailySeries(1, 2, 0),
                    DailySeries(3, MaxDays, 1)}}

Hourly(waves, seas) ==
    [tag |-> "object", hasWaveHeight |-> TRUE, hasSeaTemperature |-> TRUE,
     wave_height |-> waves, sea_surface_temperature |-> seas]

MarineResponses ==
    {[status |-> "neterror", body |-> null],
     [status |-> "notok", body |-> null]}
    \cup {[status |-> "ok", body |-> [hourly |-> h]] :
            h \in {undefined,
                   Hourly(<<>>, <<>>),
                   [Hourly(<<JNum(84)>>, <<>>) EXCEPT !.hasSeaTemperature = FALSE],
                   Hourly(<<JNum(40), JNum(84)>>, <<JNum(190), JNum(182)>>),
                   Hourly(<<JNum(127)>>, <<null>>),
                   Hourly(<<JNum(84), null>>, <<JNum(182), JNum(181)>>)}}

WeatherResponses(cardType) ==
    IF cardType = "current" THEN CurrentResponses
    ELSE IF cardType = "historical" THEN HistoricalResponses
    ELSE MarineResponses

\* the endpoint fetchWeatherForCard calls for a card: 269, 300, 323
Endpoint(cardType) ==
    IF cardType = "current" THEN "forecast?current"
    ELSE IF cardType = "historical" THEN "forecast?daily"
    ELSE "marine"

(***************************************************************************)
(* The page after DOMContentLoaded (47-54), and its handlers.              *)
(***************************************************************************)
\* a submit action: a click on a search button, or Enter in a city input;
\* blank tells whether the input was empty or whitespace-only
SubmitEvent(handler, card, value) ==
    [handler |-> handler, card |-> card, submit |-> TRUE, blank |-> Blank(value)]

\* any other handler or continuation
OtherEvent == [handler |-> "other", card |-> "none", submit |-> FALSE, blank |-> FALSE]

pureIdle == code = 0 /\ label = "" /\ daily = undefined /\ renders = 0

pageIdle ==
    /\ dom = initialPage
    /\ activeCard = "null"
    /\ calls = <<>>
    /\ requests = {}
    /\ settled = {}
    /\ lastWrite = [c \in Cards |-> [call |-> 0, result |-> null]]
    /\ lastEvent = OtherEvent

Init == pageIdle /\ pureIdle

\* 61-64, 83-86, 105-108.  A click inside the search box (inside = TRUE) needs
\* the box to be on screen.
CardClick(card, inside) ==
    /\ inside => dom.searchDisplay[card] = "flex"
    /\ IF inside
       THEN UNCHANGED <<dom, activeCard>>
       ELSE /\ dom' = toggleCardSearch(dom, card)
            /\ activeCard' = card
    /\ UNCHANGED <<calls, requests, settled, lastWrite, pureVars>>

\* the body shared by the six submit handlers: 67-70, 75-78, 89-92, 97-100,
\* 111-114, 119-122
submitSearch(card, value) ==
    LET cityName == trim(value)
    IN  IF truthy(cityName)
        THEN /\ Len(calls) < MaxSearches
             /\ dom' = fetchWeatherForCardStart(dom)
             /\ calls' = invoke(calls, card, cityName)
             /\ requests' = requests \cup {<<Len(calls) + 1, "geocoding">>}
             /\ UNCHANGED <<activeCard, settled, lastWrite>>
        ELSE UNCHANGED pageVars

\* 66-71, 88-93, 110-115.  The button is inside the card's search box, which
\* has to be on screen to be clicked.
SearchBtnClick(card, value) ==
    /\ dom.searchDisplay[card] = "flex"
    /\ submitSearch(card, value)
    /\ UNCHANGED pureVars

\* 73-80, 95-102, 117-124
CityInputKeypress(card, key, value) ==
    /\ dom.searchDisplay[card] = "flex"
    /\ IF key = "Enter"
       THEN submitSearch(card, value)
       ELSE UNCHANGED pageVars
    /\ UNCHANGED pureVars

\* the geocoding response of call i settles: 172-176, and 179/185/191 up to
\* the weather request
GeocodeSettled(i, response) ==
    /\ calls[i].pc = "geocode"
    /\ LET r == fetchWeatherForCardGeocoded(dom, calls[i], response)
       IN  /\ dom' = r.dom
           /\ calls' = [calls EXCEPT ![i] = r.call]
           /\ requests' = IF r.call.pc = "weather"
                          THEN requests \cup {<<i, Endpoint(r.call.cardType)>>}
                          ELSE requests
    /\ settled' = settled \cup {<<i, "geocoding">>}
    /\ UNCHANGED <<activeCard, lastWrite, pureVars>>

\* the weather response of call i settles: 179-208
WeatherSettled(i, response) ==
    /\ calls[i].pc = "weather"
    /\ LET r == fetchWeatherForCardFetched(dom, calls[i], response)
       IN  /\ dom' = r.dom
           /\ calls' = [calls EXCEPT ![i] = r.call]
           /\ lastWrite' = IF r.call.outcome = "rendered"
                           THEN [lastWrite EXCEPT ![r.call.cardType] =
                                     [call |-> i, result |-> r.result]]
                           ELSE lastWrite
    /\ settled' = settled \cup {<<i, Endpoint(calls[i].cardType)>>}
    /\ UNCHANGED <<activeCard, requests, pureVars>>

\* lastEvent is not kept current here
Next ==
    \/ \E card \in Cards, inside \in BOOLEAN :
           CardClick(card, inside) /\ UNCHANGED lastEvent
    \/ \E card \in Cards, value \in InputValues :
           SearchBtnClick(card, value) /\ UNCHANGED lastEvent
    \/ \E card \in Cards, key \in Keys, value \in InputValues :
           CityInputKeypress(card, key, value) /\ UNCHANGED lastEvent
    \/ \E i \in DOMAIN calls, response \in GeoResponses :
           GeocodeSettled(i, response) /\ UNCHANGED lastEvent
    \/ \E i \in DOMAIN calls :
           \E response \in WeatherResponses(calls[i].cardType) :
               WeatherSettled(i, response) /\ UNCHANGED lastEvent

Spec == Init /\ [][Next]_vars

(***************************************************************************)
(* The same page with the submit action that ran last on record, so that   *)
(* a submit handler that returns without doing anything is still a step.   *)
(***************************************************************************)
NextEvents ==
    \/ \E card \in Cards, inside \in BOOLEAN :
           /\ CardClick(card, inside)
           /\ lastEvent' = OtherEvent
    \/ \E card \in Cards, value \in InputValues :
           /\ SearchBtnClick(card, value)
           /\ lastEvent' = SubmitEvent("searchBtn.click", card, value)
    \/ \E card \in Cards, key \in Keys, value \in InputValues :
           /\ CityInputKeypress(card, key, value)
           /\ lastEvent' = IF key = "Enter"
                           THEN SubmitEvent("cityInput.keypress", card, value)
                           ELSE OtherEvent
    \/ \E i \in DOMAIN calls, response \in GeoResponses :
           /\ GeocodeSettled(i, response)
           /\ lastEvent' = OtherEvent
    \/ \E i \in DOMAIN calls :
           \E response \in WeatherResponses(calls[i].cardType) :
               /\ WeatherSettled(i, response)
               /\ lastEvent' = OtherEvent

SpecEvents == Init /\ [][NextEvents]_vars

(***************************************************************************)
(* The condition-code translator on its own: a code is drawn, then         *)
(* translated.                                                             *)
(***************************************************************************)
CodeRange == (0 - CodeMargin)..(99 + CodeMargin)

InitCodes ==
    /\ pageIdle
    /\ code \in CodeRange
    /\ label = ""
    /\ daily = undefined
    /\ renders = 0

Translate ==
    /\ label = ""
    /\ label' = getWeatherCondition(code)
    /\ UNCHANGED <<pageVars, lastEvent, code, daily, renders>>

NextCodes == Translate

SpecCodes == InitCodes /\ [][NextCodes]_vars

(***************************************************************************)
(* The historical renderer on its own: a daily block is drawn and rendered *)
(* repeatedly; another block may then take its place, as after a new       *)
(* search.                                                                 *)
(***************************************************************************)
DailyInputs ==
    {undefined, DailyWithoutTime}
    \cup {DailySeries(first, len, shift) :
            first \in {1, 12, 20}, len \in 0..MaxDays, shift \in {0, 1}}

InitHist ==
    /\ pageIdle
    /\ code = 0
    /\ label = ""
    /\ daily \in DailyInputs
    /\ renders = 0

Render ==
    /\ renders < MaxRenders
    /\ dom' = displayHistoricalWeather(dom, daily)
    /\ renders' = renders + 1
    /\ UNCHANGED <<activeCard, calls, requests, settled, lastWrite, lastEvent,
                   code, label, daily>>

NewData(dl) ==
    /\ renders >= 1
    /\ daily' = dl
    /\ renders' = 0
    /\ UNCHANGED <<pageVars, lastEvent, code, label>>

NextHist ==
    \/ Render
    \/ \E dl \in DailyInputs : NewData(dl)

SpecHist == InitHist /\ [][NextHist]_vars

(***************************************************************************)
(* Properties.                                                             *)
(***************************************************************************)
Outstanding == {i \in DOMAIN calls : calls[i].pc # "done"}

\* call i returns in this step
Finishes(i) == calls[i].pc # "done" /\ calls'[i].pc = "done"

RequestsOf(rs, i) == {r[2] : r \in {q \in rs : q[1] = i}}

\* the weather data the three cards display
CardData(d) ==
    <<d.temperatureEl, d.weatherConditionEl, d.humidityEl, d.locationEl,
      d.historicalContentEl, d.waveHeightEl, d.seaTemperatureEl, d.marineEmptyState>>

boxClosed(d, card) == d.searchDisplay[card] = "none" /\ ~d.cardActive[card]

\* C1 as stated: a submit (button click or Enter) with an empty or
\* whitespace-only input issues no request and shows a validation error.
C1_BlankSubmitShowsError ==
    [][(lastEvent'.submit /\ lastEvent'.blank)
          => (requests' = requests /\ dom'.errorDisplay = "block")]_vars

\* C1 amended: a submit (button click or Enter) of any card with an empty or
\* whitespace-only input issues no request, starts no search and leaves the
\* page exactly as it was: no error message is shown.
C1_BlankSubmitIgnored ==
    [][(lastEvent'.submit /\ lastEvent'.blank) => UNCHANGED pageVars]_vars

C1_Witness ==
    /\ lastEvent.handler = "cityInput.keypress"
    /\ lastEvent.submit /\ lastEvent.blank
    /\ requests = {}
    /\ dom.errorDisplay = "none"

ZeroResults(response) ==
    response.status = "ok"
    /\ (~response.body.hasResults \/ Len(response.body.results) = 0)

\* C2: when the geocoding request of a search succeeds with zero results, the
\* search ends in error with the city-not-found message displayed, the only
\* request it ever issued is the geocoding one, and no card's weather data
\* changes; a search that has ended issues no further request.
C2_ZeroResultsNotFound ==
    [][/\ \A i \in DOMAIN calls : \A response \in GeoResponses :
              (ZeroResults(response) /\ GeocodeSettled(i, response))
                  => /\ calls'[i].pc = "done" /\ calls'[i].outcome = "error"
                     /\ dom'.errorDisplay = "block"
                     /\ dom'.errorText = CityNotFound
                     /\ RequestsOf(requests', i) = {"geocoding"}
                     /\ CardData(dom') = CardData(dom)
       /\ \A i \in DOMAIN calls :
              calls[i].pc = "done"
                  => (calls'[i] = calls[i]
                      /\ RequestsOf(requests', i) = RequestsOf(requests, i))]_vars

C2_Witness ==
    \E i \in DOMAIN calls :
        /\ calls[i].pc = "done" /\ calls[i].outcome = "error"
        /\ RequestsOf(requests, i) = {"geocoding"}
        /\ dom.errorDisplay = "block"
        /\ dom.errorText = CityNotFound

\* C3 as stated: when a search finishes, however it ends, its card's search
\* box is closed and the card is no longer active.
C3_ClosedAfterAnyFinish ==
    [][\A i \in DOMAIN calls :
           Finishes(i) => boxClosed(dom', calls[i].cardType)]_vars

\* C3 amended: when a search finishes without an error (its data rendered, or
\* the marine data absent), its card's search box is closed and the card no
\* longer active; when it finishes with an error, every search box and active
\* mark is left as it was.
C3_ClosedAfterSuccessOnly ==
    [][\A i \in DOMAIN calls :
           Finishes(i)
               => IF calls'[i].outcome = "error"
                  THEN /\ dom'.searchDisplay = dom.searchDisplay
                       /\ dom'.cardActive = dom.cardActive
                  ELSE /\ boxClosed(dom', calls[i].cardType)
                       /\ \A c \in Cards \ {calls[i].cardType} :
                              /\ dom'.searchDisplay[c] = dom.searchDisplay[c]
                              /\ dom'.cardActive[c] = dom.cardActive[c]]_vars

C3_Witness ==
    \E i \in DOMAIN calls :
        /\ calls[i].pc = "done" /\ calls[i].outcome = "error"
        /\ Outstanding = {}
        /\ dom.searchDisplay[calls[i].cardType] = "flex"
        /\ dom.cardActive[calls[i].cardType]

\* C4 as stated: whenever a search has started and not finished, the loading
\* indicator is visible.
C4_LoadingWhileOutstanding ==
    Outstanding # {} => dom.loadingIndicator = "block"

\* C5: a search that finishes, however it ends, leaves the loading indicator
\* hidden; whenever no search is outstanding the indicator is hidden.
C5_LoadingCleared ==
    /\ [](Outstanding = {} => dom.loadingIndicator = "none")
    /\ [][\A i \in DOMAIN calls :
              Finishes(i) => dom'.loadingIndicator = "none"]_vars

\* both searches over, the second one ended by an exception raised while
\* rendering
C5_Witness ==
    /\ Len(calls) = 2
    /\ Outstanding = {}
    /\ calls[1].outcome = "rendered"
    /\ calls[2].outcome = "error"
    /\ dom.errorText = TypeErrorMessage
    /\ dom.loadingIndicator = "none"

\* C6: at most one search box is displayed and at most one card is active;
\* a step that opens one card's box leaves every other box closed.
C6_OneSearchBox ==
    /\ [](/\ Cardinality({c \in Cards : dom.searchDisplay[c] # "none"}) <= 1
          /\ Cardinality({c \in Cards : dom.cardActive[c]}) <= 1)
    /\ [][\A c \in Cards :
              (dom.searchDisplay[c] = "none" /\ dom'.searchDisplay[c] # "none")
                  => \A o \in Cards \ {c} : boxClosed(dom', o)]_vars

\* the marine box is open after the current one was, a current search still
\* in flight
C6_Witness ==
    /\ dom.searchDisplay["marine"] = "flex"
    /\ dom.cardActive["marine"]
    /\ activeCard = "marine"
    /\ \E i \in Outstanding : calls[i].cardType = "current"

\* what a card displays of its weather data
View(d, card) ==
    IF card = "current"
    THEN <<d.temperatureEl, d.weatherConditionEl, d.humidityEl, d.locationEl>>
    ELSE IF card = "historical"
    THEN <<d.historicalContentEl>>
    ELSE <<d.waveHeightEl, d.seaTemperatureEl>>

\* the page a card's display function makes of the untouched page
Displayed(card, result) ==
    IF card = "current"
    THEN displayCurrentWeather(initialPage, result.data, result.location).value
    ELSE IF card = "historical"
    THEN displayHistoricalWeather(initialPage, result.data)
    ELSE displayMarineWeather(initialPage, result.data).value

\* C7: nothing cancels a search: a search is over only once every request it
\* issued has been answered, and one still running has exactly one request
\* unanswered; each card displays the data of the search that rendered into
\* it last, whichever was submitted first, and its initial content if none has.
C7_LastWriteWins ==
    /\ \A i \in DOMAIN calls :
           LET unanswered == RequestsOf(requests \ settled, i)
           IN  IF calls[i].pc = "done"
               THEN unanswered = {}
               ELSE Cardinality(unanswered) = 1
    /\ \A card \in Cards :
           IF lastWrite[card].call = 0
           THEN View(dom, card) = View(initialPage, card)
           ELSE View(dom, card) = View(Displayed(card, lastWrite[card].result), card)

\* two searches for the current card, both rendered; the page shows the city
\* of the one submitted first, whose responses came back last
C7_Witness ==
    /\ Len(calls) = 2
    /\ \A i \in {1, 2} :
           /\ calls[i].cardType = "current"
           /\ calls[i].pc = "done"
           /\ calls[i].outcome = "rendered"
    /\ lastWrite["current"].call = 1
    /\ lastWrite["current"].result.location.name = "Paris"
    /\ dom.locationEl = Txt(<<"Paris", ", ", "France">>)

MarineFailure(response) == response.status \in {"neterror", "notok"}

EmptyWaveSeries(response) ==
    /\ response.status = "ok"
    /\ response.body.hourly.tag = "object"
    /\ response.body.hourly.hasWaveHeight
    /\ Len(response.body.hourly.wave_height) = 0

\* C8: for a marine search, a response with an empty hourly wave-height
\* series takes the page to the same state as a failed marine request: the
\* search ends without an error being raised, the marine empty state is
\* shown with the marine-unavailable message, the marine box is closed, and
\* the data displayed by the cards is unchanged.
C8_EmptySeriesLikeFailure ==
    [][\A i \in DOMAIN calls :
           calls[i].cardType = "marine"
           => \A empty \in {r \in MarineResponses : EmptyWaveSeries(r)},
                 failure \in {r \in MarineResponses : MarineFailure(r)} :
                  /\ WeatherSettled(i, empty) <=> WeatherSettled(i, failure)
                  /\ (WeatherSettled(i, empty) \/ WeatherSettled(i, failure))
                         => /\ calls'[i].pc = "done"
                            /\ calls'[i].outcome = "absent"
                            /\ dom'.marineEmptyState = "block"
                            /\ dom'.errorDisplay = "block"
                            /\ dom'.errorText = MarineUnavailable
                            /\ boxClosed(dom', "marine")
                            /\ View(dom', "current") = View(dom, "current")
                            /\ View(dom', "historical") = View(dom, "historical")
                            /\ View(dom', "marine") = View(dom, "marine")]_vars

\* a marine search ended with no data while the current card shows the data
\* of an earlier search
C8_Witness ==
    /\ Len(calls) = 2
    /\ calls[1].cardType = "current" /\ calls[1].outcome = "rendered"
    /\ calls[2].cardType = "marine" /\ calls[2].outcome = "absent"
    /\ dom.marineEmptyState = "block"
    /\ dom.errorText = MarineUnavailable
    /\ dom.locationEl = Txt(<<"Denver", ", ", "Colorado", ", ", "United States">>)

PublishedCodes ==
    {0, 1, 2, 3, 45, 48, 51, 53, 55, 56, 57, 61, 63, 65, 66, 67, 71, 73, 75, 77,
     80, 81, 82, 85, 86, 95, 96, 99}

\* C9: the translator gives every code of the published table its label of
\* the table (0 Clear sky, 3 Overcast, 61 Slight rain, 95 Thunderstorm, 99
\* Thunderstorm with heavy hail), never "Unknown", gives every other integer
\* "Unknown", and has a result for every code.
C9_Labels ==
    /\ label = "" => ENABLED Translate
    /\ label # "" =>
          /\ code \in PublishedCodes <=> label # "Unknown"
          /\ code \in PublishedCodes => label = weatherCodes[code]
          /\ code = 0 => label = "Clear sky"
          /\ code = 3 => label = "Overcast"
          /\ code = 61 => label = "Slight rain"
          /\ code = 95 => label = "Thunderstorm"
          /\ code = 99 => label = "Thunderstorm with heavy hail"

C9_Witness == code = 0 /\ label = "Clear sky"

\* C10: once a daily series has been rendered, however often and whatever the
\* panel held before, the panel holds one entry per day of the series, in the
\* order of the series, at most 7 of them, each with its day's label; an
\* empty or missing series gives the single no-data element; rendering the
\* same series again changes nothing.
C10_HistoricalRender ==
    /\ [](renders >= 1 =>
            LET shown == dom.historicalContentEl
            IN  IF daily.tag # "object" \/ ~daily.hasTime \/ Len(daily.time) = 0
                THEN shown = <<emptyStateElement>>
                ELSE /\ Len(shown) <= 7
                     /\ Len(shown) = Min(7, Len(daily.time))
                     /\ \A i \in 1..Len(shown) :
                            /\ shown[i].className = "historical-day"
                            /\ shown[i].date.month = "May"
                            /\ shown[i].date.day = daily.time[i][3])
    /\ [][(renders >= 1 /\ renders' = renders + 1)
             => dom'.historicalContentEl = dom.historicalContentEl]_vars

\* a series of more than 7 days rendered twice over the entries of another
C10_Witness ==
    /\ renders = 2
    /\ daily.tag = "object"
    /\ Len(daily.time) > 7
    /\ Len(dom.historicalContentEl) = 7
    /\ dom.historicalContentEl[7].date = [month |-> "May", day |-> 26]

====
